---- MODULE Spec2Model ----
(***************************************************************************)
(* Model of the scanpw crate: the scanpw! macro (src/src/lib.rs) and the   *)
(* raw-mode reader try_scanpw (src/src/try_scanpw.rs), driven by a stream  *)
(* of terminal events.  The terminal driver (crossterm) is modelled by its *)
(* effect on a cursor column, a raw-mode flag and the stream of rendering  *)
(* commands it received; every driver call may fail.                       *)
(***************************************************************************)
EXTENDS Integers, Sequences, FiniteSets, TLC

\* ------------------------------------------------------------------ bounds
\* number of events one read may consume
MaxEvents == 3
\* number of columns of the terminal line
Cols == 4

\* ------------------------------------------------------------- vocabulary
None == "None"
CONTROL == "CONTROL"
SHIFT == "SHIFT"

\* Option<char> values passed as `echo`
EchoModes == {None, "*", "#"}

\* the macro arms of scanpw!, plus a direct call of try_scanpw
Forms == {"direct", "empty", "fmt", "fmt_args", "echo", "echo_fmt", "echo_fmt_args"}
PromptForms == {"fmt", "fmt_args", "echo_fmt", "echo_fmt_args"}
DefaultEchoForms == {"empty", "fmt", "fmt_args"}

\* the prompt literal of the example programs, shortened; "{}" is a placeholder
FmtLiteral == <<"P", ":">>
FmtWithArgs == <<"P", "{}", ":">>
FmtArgs == <<"u">>

KeyEv(code, ch, mods) == [kind |-> "Key", code |-> code, ch |-> ch, mods |-> mods]
ResizeEv == [kind |-> "Resize", code |-> "", ch |-> "", mods |-> {}]

\* the events the terminal driver may deliver
Events ==
    {KeyEv("Char", ch, {}) : ch \in {"a", "c"}}
    \cup {KeyEv("Char", "c", {CONTROL}), KeyEv("Char", "a", {CONTROL}),
          KeyEv("Char", "c", {CONTROL, SHIFT})}
    \cup {KeyEv("Enter", "", m) : m \in {{}, {CONTROL}}}
    \cup {KeyEv("Backspace", "", m) : m \in {{}, {SHIFT}}}
    \cup {KeyEv("Tab", "", {}), ResizeEv}

\* ---------------------------------------------------------- pure helpers
\* format_args!: every "{}" of the literal is replaced by the next argument
RECURSIVE Format(_, _)
Format(fmt, args) ==
    IF fmt = <<>> THEN <<>>
    ELSE IF Head(fmt) = "{}"
         THEN <<Head(args)>> \o Format(Tail(fmt), Tail(args))
         ELSE <<Head(fmt)>> \o Format(Tail(fmt), args)

\* the text print! writes in each arm of the macro
PromptOf(f) ==
    CASE f \in {"fmt", "echo_fmt"} -> FmtLiteral
      [] f \in {"fmt_args", "echo_fmt_args"} -> Format(FmtWithArgs, FmtArgs)
      [] OTHER -> <<>>

\* Option::unwrap_or as used on `echo`
unwrap_or(e, c) == IF e = None THEN c ELSE e

\* variant of push that puts the char in front
push_front(s, c) == <<c>> \o s

\* String::push
push(s, c) == Append(s, c)

\* variant of pop that removes nothing
pop_none(s) == s

\* String::pop: removes the last char if there is one
pop(s) == IF s = <<>> THEN s ELSE SubSeq(s, 1, Len(s) - 1)

\* variant of Dispatch that takes Ctrl+C whenever CONTROL is among the modifiers
Dispatch_anyControl(ev) ==
    IF ev.kind # "Key" THEN "ignore"
    ELSE IF ev.code = "Char" /\ ev.mods = {} THEN "char"
    ELSE IF ev.code = "Enter" THEN "enter"
    ELSE IF ev.code = "Backspace" THEN "backspace"
    ELSE IF ev.code = "Char" /\ ev.ch = "c" /\ CONTROL \in ev.mods THEN "ctrlc"
    ELSE "ignore"

\* variant of Dispatch in which a key the match does not list ends the read
Dispatch_otherKeyEnds(ev) ==
    IF ev.kind # "Key" THEN "ignore"
    ELSE IF ev.code = "Char" /\ ev.mods = {} THEN "char"
    ELSE IF ev.code = "Enter" THEN "enter"
    ELSE IF ev.code = "Backspace" THEN "backspace"
    ELSE IF ev.code = "Char" /\ ev.ch = "c" /\ ev.mods = {CONTROL} THEN "ctrlc"
    ELSE IF ev.code = "Char" THEN "ignore"
    ELSE "enter"

\* variant of Dispatch that takes Enter and Backspace only without modifiers
Dispatch_unmodifiedOnly(ev) ==
    IF ev.kind # "Key" THEN "ignore"
    ELSE IF ev.code = "Char" /\ ev.mods = {} THEN "char"
    ELSE IF ev.code = "Enter" /\ ev.mods = {} THEN "enter"
    ELSE IF ev.code = "Backspace" /\ ev.mods = {} THEN "backspace"
    ELSE IF ev.code = "Char" /\ ev.ch = "c" /\ ev.mods = {CONTROL} THEN "ctrlc"
    ELSE "ignore"

\* the arm of the match that an event takes
Dispatch(ev) ==
    IF ev.kind # "Key" THEN "ignore"
    ELSE IF ev.code = "Char" /\ ev.mods = {} THEN "char"
    ELSE IF ev.code = "Enter" THEN "enter"
    ELSE IF ev.code = "Backspace" THEN "backspace"
    ELSE IF ev.code = "Char" /\ ev.ch = "c" /\ ev.mods = {CONTROL} THEN "ctrlc"
    ELSE "ignore"

\* variant of not_too_far that forgets the column the input started at
not_too_far_loose(cur_left, ml) == cur_left >= 1

\* cur_left.checked_sub(1).map(|np| np >= max_left).unwrap_or(false)
not_too_far(cur_left, ml) ==
    IF cur_left = 0 THEN FALSE ELSE cur_left - 1 >= ml

\* ------------------------------------------------------- terminal driver
\* A call of the driver (or of stdout): op, its argument as a string of chars
Call(op, arg) == [op |-> op, arg |-> arg, ok |-> TRUE]

\* the bytes held in the stdout buffer reach the terminal
Drain(t) ==
    IF t.buf = <<>> THEN t
    ELSE [t EXCEPT !.buf = <<>>,
                   !.out = @ \o <<[op |-> "Print", arg |-> t.buf]>>,
                   !.col = (@ + Len(t.buf)) % Cols]

\* effect of one successful call on the terminal
Apply(t, c) ==
    CASE c.op = "print!" -> [t EXCEPT !.buf = @ \o c.arg]
      [] c.op = "flush" -> Drain(t)
      [] c.op = "enable_raw_mode" -> [t EXCEPT !.raw = TRUE]
      [] c.op = "disable_raw_mode" -> [t EXCEPT !.raw = FALSE]
      [] c.op = "Print" ->
            LET d == Drain(t) IN
            [d EXCEPT !.out = @ \o <<[op |-> "Print", arg |-> c.arg]>>,
                      !.col = IF c.arg = <<"\n">> THEN @
                              ELSE (@ + Len(c.arg)) % Cols]
      [] c.op = "MoveLeft" ->
            LET d == Drain(t) IN
            [d EXCEPT !.out = @ \o <<[op |-> "MoveLeft", arg |-> c.arg]>>,
                      !.col = IF @ = 0 THEN 0 ELSE @ - 1]
      [] c.op = "MoveToNextLine" ->
            LET d == Drain(t) IN
            [d EXCEPT !.out = @ \o <<[op |-> "MoveToNextLine", arg |-> c.arg]>>,
                      !.col = 0]
      [] OTHER -> t

RECURSIVE Exec(_, _)
Exec(t, calls) ==
    IF calls = <<>> THEN t ELSE Exec(Apply(t, Head(calls)), Tail(calls))

\* variant of Performed that goes on after the failing call
Performed_all(calls, f) == calls

\* f = 0: every call succeeds; f > 0: call number f fails and the `?`
\* operator returns before the calls after it
Performed(calls, f) ==
    IF f = 0 \/ f > Len(calls) THEN calls ELSE SubSeq(calls, 1, f - 1)

Logged(calls, f) ==
    IF f = 0 \/ f > Len(calls) THEN calls
    ELSE [i \in 1..f |-> [calls[i] EXCEPT !.ok = (i # f)]]

FailPoints(calls) == 0..Len(calls)

ErrOf(calls, f) == calls[f].op

\* ------------------------------------------------ the calls of each step
\* variant of PromptCalls without the flush
PromptCalls_noflush(f) == <<Call("print!", PromptOf(f))>>

\* lib.rs 84-86: print!, flush().unwrap()
PromptCalls(f) == <<Call("print!", PromptOf(f)), Call("flush", <<>>)>>

\* try_scanpw.rs 20-24
BeginCalls == <<Call("enable_raw_mode", <<>>), Call("position", <<>>)>>

\* try_scanpw.rs 30
ReadCall == Call("read", <<>>)

\* variant of Printed that shows the typed char
Printed_typed(e, c) == c

\* the char handed to Print at try_scanpw.rs 38
Printed(e, c) == unwrap_or(e, c)

\* the char handed to pw.push at try_scanpw.rs 41
Pushed(e, c) == unwrap_or(e, c)

\* variant of CharCalls that prints nothing when echo is None
CharCalls_suppress(e, c) ==
    IF e = None THEN <<Call("read", <<>>)>>
    ELSE <<Call("read", <<>>), Call("Print", <<e>>)>>

\* try_scanpw.rs 30, 38
CharCalls(e, c) == <<ReadCall, Call("Print", <<Printed(e, c)>>)>>

\* try_scanpw.rs 49-50, 99
EnterCalls ==
    <<ReadCall, Call("Print", <<"\n">>), Call("MoveToNextLine", <<"1">>),
      Call("disable_raw_mode", <<>>)>>

\* try_scanpw.rs 61-72
BackspaceCalls(cur_left, ml) ==
    <<ReadCall, Call("position", <<>>)>>
    \o (IF not_too_far(cur_left, ml)
        THEN <<Call("MoveLeft", <<"1">>), Call("Print", <<" ">>),
               Call("MoveLeft", <<"1">>)>>
        ELSE <<>>)

\* variant of CtrlCCalls that leaves raw mode on
CtrlCCalls_noDisable == <<Call("read", <<>>), Call("Print", <<"^", "C">>)>>

\* try_scanpw.rs 84-87
CtrlCCalls ==
    <<ReadCall, Call("Print", <<"^", "C">>), Call("disable_raw_mode", <<>>)>>

\* what die() can do: the signal ends the process; raise() returns because
\* SIGINT is handled or ignored (or the console event is delivered on another
\* thread); the unwrap / panic! fires
DieOutcomes == {"terminated", "returned", "panicked"}

\* ------------------------------------------------------------------ state
VARIABLES form, echo, pc, pw, max_left, term, shadow, log, evs, evs2, result

vars == <<form, echo, pc, pw, max_left, term, shadow, log, evs, evs2, result>>

NoResult == [kind |-> "none", val |-> <<>>, err |-> ""]
Ok(s) == [kind |-> "Ok", val |-> s, err |-> ""]
Err(e) == [kind |-> "Err", val |-> <<>>, err |-> e]
Panic(e) == [kind |-> "panic", val |-> <<>>, err |-> e]
Killed == [kind |-> "killed", val |-> <<>>, err |-> ""]

InitTerm == [col |-> 0, raw |-> FALSE, out |-> <<>>, buf |-> <<>>]

Init ==
    /\ form \in Forms
    /\ echo \in (IF form \in DefaultEchoForms THEN {"*"} ELSE EchoModes)
    /\ pc = IF form \in PromptForms THEN "macro" ELSE "call"
    /\ pw = <<>>
    /\ max_left = 0
    /\ term = InitTerm
    /\ shadow = InitTerm
    /\ log = <<>>
    /\ evs = <<>>
    /\ evs2 = <<>>
    /\ result = NoResult

\* ---------------------------------------------------------------- actions
\* the macro arms with a prompt: print!(..); stdout().flush().unwrap()
Prompt ==
    /\ pc = "macro"
    /\ \E f \in FailPoints(PromptCalls(form)) :
         LET calls == PromptCalls(form) IN
         /\ term' = Exec(term, Performed(calls, f))
         /\ shadow' = Exec(shadow, Performed(calls, f))
         /\ log' = log \o Logged(calls, f)
         /\ IF f = 0
            THEN pc' = "call" /\ result' = result
            ELSE pc' = "done" /\ result' = Panic(ErrOf(calls, f))
    /\ UNCHANGED <<form, echo, pw, max_left, evs, evs2>>

\* try_scanpw entry: enable_raw_mode()?; position()?; String::new()
Begin ==
    /\ pc = "call"
    /\ \E f \in FailPoints(BeginCalls) :
         /\ term' = Exec(term, Performed(BeginCalls, f))
         /\ shadow' = Exec(shadow, Performed(BeginCalls, f))
         /\ log' = log \o Logged(BeginCalls, f)
         /\ IF f = 0
            THEN pc' = "loop" /\ result' = result /\ max_left' = term'.col
            ELSE pc' = "returned" /\ result' = Err(ErrOf(BeginCalls, f))
                 /\ max_left' = max_left
    /\ pw' = <<>>
    /\ UNCHANGED <<form, echo, evs, evs2>>

\* one iteration of the loop that got its event: the calls up to the failing
\* one act on the terminal; the twin terminal gets the twin's calls
Iterate(ev, ev2, calls, calls2, f) ==
    /\ term' = Exec(term, Performed(calls, f))
    /\ shadow' = Exec(shadow, Performed(calls2, f))
    /\ evs' = Append(evs, ev)
    /\ evs2' = Append(evs2, ev2)

\* the failure points of a handler after its event was read
HandlerFails(calls) == {0} \cup 2..Len(calls)

\* event::read()? fails
ReadFail ==
    /\ pc = "loop"
    /\ log' = log \o Logged(<<ReadCall>>, 1)
    /\ pc' = "returned"
    /\ result' = Err("read")
    /\ UNCHANGED <<form, echo, pw, max_left, term, shadow, evs, evs2>>

\* KeyCode::Char(c) with no modifiers
KeyChar ==
    /\ pc = "loop"
    /\ Len(evs) < MaxEvents
    /\ \E ev \in Events, ev2 \in Events :
         /\ Dispatch(ev) = "char"
         /\ Dispatch(ev2) = "char"
         /\ LET calls == CharCalls(echo, ev.ch)
                calls2 == CharCalls(echo, ev2.ch)
            IN \E f \in HandlerFails(calls) :
                 /\ Iterate(ev, ev2, calls, calls2, f)
                 /\ log' = log \o Logged(calls, f)
                 /\ IF f = 0
                    THEN /\ pw' = push(pw, Pushed(echo, ev.ch))
                         /\ pc' = pc
                         /\ result' = result
                    ELSE /\ pw' = pw
                         /\ pc' = "returned"
                         /\ result' = Err(ErrOf(calls, f))
    /\ UNCHANGED <<form, echo, max_left>>

\* KeyCode::Enter, then the disable_raw_mode after the loop and Ok(pw)
KeyEnter ==
    /\ pc = "loop"
    /\ Len(evs) < MaxEvents
    /\ \E ev \in Events :
         /\ Dispatch(ev) = "enter"
         /\ \E f \in HandlerFails(EnterCalls) :
              /\ Iterate(ev, ev, EnterCalls, EnterCalls, f)
              /\ log' = log \o Logged(EnterCalls, f)
              /\ result' = IF f = 0 THEN Ok(pw) ELSE Err(ErrOf(EnterCalls, f))
    /\ pc' = "returned"
    /\ UNCHANGED <<form, echo, pw, max_left>>

\* KeyCode::Backspace
KeyBackspace ==
    /\ pc = "loop"
    /\ Len(evs) < MaxEvents
    /\ \E ev \in Events :
         /\ Dispatch(ev) = "backspace"
         /\ LET calls == BackspaceCalls(term.col, max_left)
                calls2 == BackspaceCalls(shadow.col, max_left)
            IN \E f \in HandlerFails(calls) :
                 /\ Iterate(ev, ev, calls, calls2, f)
                 /\ log' = log \o Logged(calls, f)
                 /\ IF f = 0
                    THEN /\ pw' = pop(pw)
                         /\ pc' = pc
                         /\ result' = result
                    ELSE /\ pw' = pw
                         /\ pc' = "returned"
                         /\ result' = Err(ErrOf(calls, f))
    /\ UNCHANGED <<form, echo, max_left>>

\* KeyCode::Char('c') with exactly CONTROL: Print("^C"), disable_raw_mode, die()
KeyCtrlC ==
    /\ pc = "loop"
    /\ Len(evs) < MaxEvents
    /\ \E ev \in Events :
         /\ Dispatch(ev) = "ctrlc"
         /\ \E f \in HandlerFails(CtrlCCalls) :
              /\ Iterate(ev, ev, CtrlCCalls, CtrlCCalls, f)
              /\ IF f = 0
                 THEN \E o \in DieOutcomes :
                        /\ log' = log \o CtrlCCalls \o <<Call("die", <<o>>)>>
                        /\ pc' = IF o = "returned" THEN "loop" ELSE "done"
                        /\ result' = CASE o = "terminated" -> Killed
                                       [] o = "panicked" -> Panic("die")
                                       [] OTHER -> result
                 ELSE /\ log' = log \o Logged(CtrlCCalls, f)
                      /\ pc' = "returned"
                      /\ result' = Err(ErrOf(CtrlCCalls, f))
    /\ UNCHANGED <<form, echo, pw, max_left>>

\* any other event: the `_ => ()` arm, or an event that is no key event
Ignored ==
    /\ pc = "loop"
    /\ Len(evs) < MaxEvents
    /\ \E ev \in Events :
         /\ Dispatch(ev) = "ignore"
         /\ Iterate(ev, ev, <<ReadCall>>, <<ReadCall>>, 0)
    /\ log' = Append(log, ReadCall)
    /\ UNCHANGED <<form, echo, pc, pw, max_left, result>>

\* variant of unwrap that yields a default value on an error
unwrap_default(r) == IF r.kind = "Err" THEN [r EXCEPT !.kind = "Ok"] ELSE r

\* Result::unwrap: the value, or a panic carrying the error
unwrap(r) == IF r.kind = "Err" THEN [r EXCEPT !.kind = "panic"] ELSE r

\* the macro's .unwrap() on the value try_scanpw returned
MacroUnwrap ==
    /\ pc = "returned"
    /\ form # "direct"
    /\ pc' = "done"
    /\ result' = unwrap(result)
    /\ UNCHANGED <<form, echo, pw, max_left, term, shadow, log, evs, evs2>>

Next ==
    \/ Prompt
    \/ Begin
    \/ ReadFail
    \/ KeyChar
    \/ KeyEnter
    \/ KeyBackspace
    \/ KeyCtrlC
    \/ Ignored
    \/ MacroUnwrap

Spec == Init /\ [][Next]_vars

\* ------------------------------------------------------------- properties
\* every event of s is an unmodified printable-character key event
AllChars(s) == \A i \in 1..Len(s) : Dispatch(s[i]) = "char"

\* the characters carried by the events of s
Typed(s) == [i \in 1..Len(s) |-> s[i].ch]

\* s is a run of unmodified character events ended by an Enter
CharsThenEnter(s) ==
    /\ Len(s) >= 1
    /\ AllChars(SubSeq(s, 1, Len(s) - 1))
    /\ Dispatch(s[Len(s)]) = "enter"

\* what a terminal received after the prompt
KeyOutOf(t) ==
    LET base == IF PromptOf(form) = <<>> THEN 0 ELSE 1
    IN SubSeq(t.out, base + 1, Len(t.out))

KeyOut == KeyOutOf(term)

Rendered(op, arg) == [op |-> op, arg |-> arg]

\* the raw-mode flag left by the calls log[1..i-1]
RawBefore(i) ==
    LET S == {j \in 1..(i - 1) :
                log[j].ok /\ log[j].op \in {"enable_raw_mode", "disable_raw_mode"}}
    IN S # {} /\ log[CHOOSE j \in S : \A k \in S : k <= j].op = "enable_raw_mode"

EnableSucceeded ==
    \E i \in 1..Len(log) : log[i].op = "enable_raw_mode" /\ log[i].ok

DieCalled == \E i \in 1..Len(log) : log[i].op = "die"

\* C1 (as stated): with echo Mask(c), a run of unmodified character events
\* followed by Enter returns Ok with the typed characters in typing order.
C1_MaskReturnsTyped ==
    (echo # None /\ result.kind = "Ok" /\ CharsThenEnter(evs))
        => result.val = Typed(SubSeq(evs, 1, Len(evs) - 1))

\* C2 (as stated): every exit that follows a successful enable of raw mode
\* happens with raw mode disabled, the I/O error exits included.
C2_RawOffAtEveryExit ==
    (pc \in {"returned", "done"} /\ EnableSucceeded) => ~term.raw

\* C3 (as stated): with echo None an unmodified character event writes nothing
\* and does not advance the cursor; over a read of character events ended by
\* Enter only the newline of the Enter is rendered.
C3_SuppressedRendersNothing ==
    /\ (echo = None /\ pc = "loop" /\ AllChars(evs))
          => (KeyOut = <<>> /\ term.col = max_left)
    /\ (echo = None /\ result.kind = "Ok" /\ CharsThenEnter(evs))
          => KeyOut = <<Rendered("Print", <<"\n">>), Rendered("MoveToNextLine", <<"1">>)>>

\* C4: with echo Mask(c), two reads started at the same column whose event
\* sequences differ only in the characters of the unmodified character events
\* send the terminal the same writes and cursor moves.
C4_MaskHidesChars ==
    echo # None => (shadow.out = term.out /\ shadow.col = term.col)

C4_Witness ==
    /\ echo # None
    /\ result.kind = "Ok"
    /\ Len(evs) = MaxEvents
    /\ evs[1] # evs2[1]
    /\ Dispatch(evs[1]) = "char"
    /\ \E i \in 1..Len(evs) : Dispatch(evs[i]) = "backspace"
    /\ \E i \in 1..Len(term.out) : term.out[i].op = "MoveLeft"

\* C5 (as stated): once a Ctrl+C event is processed the reader consumes no
\* further event and the call never returns Ok.
C5_NoReturnAfterInterrupt ==
    /\ \A i \in 1..(Len(evs) - 1) : Dispatch(evs[i]) # "ctrlc"
    /\ result.kind = "Ok" => \A i \in 1..Len(evs) : Dispatch(evs[i]) # "ctrlc"

\* C6: on Ctrl+C the reader writes ^C, then disables raw mode, then delivers
\* the interrupt; the interrupt is never raised while raw mode is enabled.
C6_InterruptOrder ==
    \A i \in 1..Len(log) :
        log[i].op = "die" =>
            /\ i >= 4
            /\ log[i - 3] = Call("read", <<>>)
            /\ log[i - 2] = Call("Print", <<"^", "C">>)
            /\ log[i - 1] = Call("disable_raw_mode", <<>>)
            /\ ~RawBefore(i)

C6_Witness ==
    /\ DieCalled
    /\ Len(evs) >= 2
    /\ Dispatch(evs[1]) = "char"
    /\ ~term.raw
    /\ term.out[Len(term.out)] = Rendered("Print", <<"^", "C">>)

\* a Backspace event was consumed in this step and its handler ran to its end
BackspaceHandled ==
    /\ Len(evs') = Len(evs) + 1
    /\ Dispatch(evs'[Len(evs')]) = "backspace"
    /\ pc' = "loop"

\* C7: a handled Backspace removes exactly the last character of a non-empty
\* buffer and keeps the characters before it, whether or not anything was
\* erased on screen; no other step removes a character from the buffer.
C7_BackspacePops ==
    [][ /\ (BackspaceHandled /\ pw # <<>>) => pw' = SubSeq(pw, 1, Len(pw) - 1)
        /\ (\E i \in 1..Len(pw) : i > Len(pw') \/ pw'[i] # pw[i]) => BackspaceHandled
      ]_vars

\* a Backspace at the bound: nothing was erased on screen, the buffer shrank
C7_Witness ==
    /\ pc = "loop"
    /\ Len(evs) >= 2
    /\ Dispatch(evs[Len(evs)]) = "backspace"
    /\ AllChars(SubSeq(evs, 1, Len(evs) - 1))
    /\ Len(pw) = Len(evs) - 2
    /\ \A i \in 1..Len(term.out) : term.out[i].op # "MoveLeft"

\* C8: with echo Mask(c), after n unmodified character events the rendered
\* output is c written n times and nothing else.
C8_MaskRenderedPerChar ==
    (echo # None /\ pc = "loop" /\ AllChars(evs))
        => KeyOut = [i \in 1..Len(evs) |-> Rendered("Print", <<echo>>)]

C8_Witness ==
    /\ echo = "#"
    /\ pc = "loop"
    /\ AllChars(evs)
    /\ Len(evs) = MaxEvents
    /\ Len(KeyOut) = MaxEvents

\* C9: with echo None, a run of unmodified character events followed by Enter
\* returns the typed characters in typing order.
C9_SuppressedReturnsTyped ==
    (echo = None /\ result.kind = "Ok" /\ CharsThenEnter(evs))
        => result.val = Typed(SubSeq(evs, 1, Len(evs) - 1))

C9_Witness ==
    /\ echo = None
    /\ result.kind = "Ok"
    /\ CharsThenEnter(evs)
    /\ Len(evs) = MaxEvents
    /\ evs[1].ch # evs[2].ch

\* C10: in every macro arm with a prompt, the prompt is written and flushed
\* before raw mode is enabled and before any event is read or rendered.
C10_PromptFlushedFirst ==
    form \in PromptForms =>
        /\ \A i \in 1..Len(log) :
              log[i].op \notin {"print!", "flush"} =>
                  /\ i >= 3
                  /\ log[1] = Call("print!", PromptOf(form))
                  /\ log[2] = Call("flush", <<>>)
        /\ pc \notin {"macro", "done"} =>
              /\ term.buf = <<>>
              /\ term.out # <<>>
              /\ term.out[1] = Rendered("Print", PromptOf(form))

C10_Witness ==
    /\ form = "echo_fmt_args"
    /\ pc = "loop"
    /\ Len(evs) >= 2
    /\ Len(term.out) >= 3
    /\ term.out[1] = Rendered("Print", <<"P", "u", ":">>)

\* a successful rendering call of the log
IsRenderOk(c) == c.ok /\ c.op \in {"Print", "MoveLeft", "MoveToNextLine"}

\* the renderings the logged calls account for
RenderedByLog ==
    LET R == SelectSeq(log, IsRenderOk)
    IN [i \in 1..Len(R) |-> Rendered(R[i].op, R[i].arg)]

AnyFailed == \E i \in 1..Len(log) : ~log[i].ok

\* C11: a failing terminal call ends the call at once with that error: it is
\* not retried, no terminal operation follows it (no best-effort disable, no
\* interrupt), no password is returned; after a failing enable nothing else
\* has been done.
C11_FailurePropagatesAtOnce ==
    /\ \A i \in 1..Len(log) : ~log[i].ok => i = Len(log)
    /\ term.raw = RawBefore(Len(log) + 1)
    /\ pc # "macro" => KeyOut = RenderedByLog
    /\ AnyFailed =>
          LET op == log[Len(log)].op IN
          /\ pc \in {"returned", "done"}
          /\ result.val = <<>>
          /\ result.err = op
          /\ result.kind = IF pc = "returned" THEN "Err" ELSE "panic"
          /\ op = "enable_raw_mode" =>
                (evs = <<>> /\ pw = <<>> /\ ~term.raw /\ KeyOut = <<>>)

C11_Witness ==
    /\ pc = "returned"
    /\ result = Err("MoveLeft")
    /\ term.raw
    /\ Len(evs) = MaxEvents
    /\ pw # <<>>

\* C12: the macro never yields a password after an I/O failure, it panics;
\* try_scanpw itself returns the error as a value.
C12_MacroPanicsOnError ==
    AnyFailed =>
        /\ result.kind # "Ok"
        /\ pc = "returned" => result.kind = "Err"
        /\ pc = "done" => (form # "direct" /\ result.kind = "panic")
        /\ form = "direct" => (pc = "returned" /\ result.kind = "Err")

C12_Witness ==
    /\ form = "echo_fmt"
    /\ pc = "done"
    /\ result = Panic("read")
    /\ Len(evs) >= 2
    /\ pw # <<>>

\* C13 (as stated): once the buffer is empty a Backspace is a complete no-op:
\* the buffer stays empty, nothing is written, the cursor does not move.
C13_BackspaceNoopWhenEmpty ==
    [][ (BackspaceHandled /\ pw = <<>>)
            => (pw' = <<>> /\ term'.out = term.out /\ term'.col = term.col)
      ]_vars

\* the erase sequence of the Backspace arm
EraseOps ==
    <<Rendered("MoveLeft", <<"1">>), Rendered("Print", <<" ">>),
      Rendered("MoveLeft", <<"1">>)>>

\* this step sent the terminal a MoveLeft
MovedLeft ==
    \E i \in (Len(term.out) + 1)..Len(term'.out) : term'.out[i].op = "MoveLeft"

\* this step consumed an event
Consumed == Len(evs') = Len(evs) + 1

\* C14: a Backspace moves the cursor only when the column minus one is at
\* least CursorBound, its net movement is then one column left; otherwise it
\* writes nothing and leaves the column; no step moves the cursor left of the
\* bound.
C14_NeverLeftOfBound ==
    [][ /\ BackspaceHandled =>
              IF term.col >= 1 /\ term.col - 1 >= max_left
              THEN /\ term'.out = term.out \o EraseOps
                   /\ term'.col = term.col - 1
              ELSE /\ term'.out = term.out
                   /\ term'.col = term.col
        /\ MovedLeft =>
              /\ Consumed
              /\ evs'[Len(evs')].code = "Backspace"
              /\ term.col - 1 >= max_left
              /\ term'.col >= max_left
      ]_vars

C14_Witness ==
    /\ form = "fmt"
    /\ pc = "loop"
    /\ Len(evs) = 3
    /\ evs[2].code = "Backspace"
    /\ evs[3].code = "Backspace"
    /\ term.col = max_left
    /\ max_left = 2
    /\ Len(KeyOut) = 4

\* an event the dispatch does not list
Unlisted(ev) ==
    \/ ev.kind # "Key"
    \/ ev.code \notin {"Char", "Enter", "Backspace"}
    \/ /\ ev.code = "Char"
       /\ ev.mods # {}
       /\ ~(ev.ch = "c" /\ ev.mods = {CONTROL})

\* C15: an event the dispatch does not list leaves the buffer, the terminal
\* (output, cursor, raw flag) and CursorBound unchanged, and the reader goes on
\* to read the next event.
C15_UnlistedIgnored ==
    [][ (Consumed /\ Unlisted(evs'[Len(evs')]))
            => /\ pw' = pw
               /\ term' = term
               /\ max_left' = max_left
               /\ result' = result
               /\ pc' = "loop"
               /\ log' = Append(log, Call("read", <<>>))
      ]_vars

C15_Witness ==
    /\ pc = "loop"
    /\ Len(evs) = 3
    /\ Dispatch(evs[1]) = "char"
    /\ evs[2].code = "Char" /\ Unlisted(evs[2])
    /\ evs[3].kind = "Resize"
    /\ Len(pw) = 1
    /\ Len(log) = 6

\* the event consumed by this step
LastEv == evs'[Len(evs')]

\* every call of this step succeeded
StepOk == log'[Len(log')].ok

IsCtrlC(ev) == ev.kind = "Key" /\ ev.code = "Char" /\ ev.ch = "c" /\ ev.mods = {CONTROL}

IsEnter(ev) == ev.kind = "Key" /\ ev.code = "Enter"

IsBackspace(ev) == ev.kind = "Key" /\ ev.code = "Backspace"

EnterOps == <<Rendered("Print", <<"\n">>), Rendered("MoveToNextLine", <<"1">>)>>

\* C16 (as stated): on Enter the reader writes a newline, moves to the next
\* line, disables raw mode and returns Ok with the buffer, in this order; both
\* renderings happen while raw mode is enabled, the Enter is the last event
\* consumed, and an Ok return leaves raw mode disabled.
C16_EnterOrder ==
    result.kind = "Ok" =>
        LET n == Len(log) IN
        /\ n >= 4
        /\ log[n - 3] = Call("read", <<>>)
        /\ log[n - 2] = Call("Print", <<"\n">>)
        /\ log[n - 1] = Call("MoveToNextLine", <<"1">>)
        /\ log[n] = Call("disable_raw_mode", <<>>)
        /\ RawBefore(n - 2)
        /\ RawBefore(n - 1)
        /\ ~term.raw
        /\ IsEnter(evs[Len(evs)])
        /\ result.val = pw

\* C17: a read leaves the loop only on an Enter event, a Ctrl+C event or a
\* failed terminal call; any other event keeps it reading; an Ok return comes
\* from a consumed Enter, and an Enter handled without failure returns Ok.
C17_EndsOnlyByEnterCtrlCOrFailure ==
    [][ /\ (pc = "loop" /\ pc' # "loop")
              => \/ Consumed /\ (IsEnter(LastEv) \/ IsCtrlC(LastEv))
                 \/ ~StepOk
        /\ (Consumed /\ StepOk /\ ~IsEnter(LastEv) /\ ~IsCtrlC(LastEv))
              => (pc' = "loop" /\ result' = result)
        /\ (result'.kind = "Ok" /\ result.kind # "Ok")
              => (Consumed /\ IsEnter(LastEv))
        /\ (Consumed /\ StepOk /\ IsEnter(LastEv))
              => (pc' = "returned" /\ result' = Ok(pw))
      ]_vars

C17_Witness ==
    /\ result.kind = "Ok"
    /\ Len(evs) = 3
    /\ Unlisted(evs[1])
    /\ Dispatch(evs[2]) = "char"
    /\ evs[3] = KeyEv("Enter", "", {})
    /\ Len(result.val) = 1

\* the number of unmodified character events in s
NChars(s) ==
    Cardinality({i \in 1..Len(s) :
                    s[i].kind = "Key" /\ s[i].code = "Char" /\ s[i].mods = {}})

NoCtrlC(s) == \A i \in 1..Len(s) : ~IsCtrlC(s[i])

\* the line cannot have wrapped yet
NoWrap(s) == max_left + NChars(s) < Cols

InStep ==
    (pc = "loop" /\ NoCtrlC(evs) /\ NoWrap(evs))
        => term.col - max_left = Len(pw)

C19_EnterBackspaceAnyModifiers ==
    [][ /\ (Consumed /\ StepOk /\ IsEnter(LastEv))
              => /\ result' = Ok(pw)
                 /\ pc' = "returned"
                 /\ term'.out = term.out \o EnterOps
        /\ (Consumed /\ StepOk /\ IsBackspace(LastEv))
              => /\ pw' = IF pw = <<>> THEN <<>> ELSE SubSeq(pw, 1, Len(pw) - 1)
                 /\ pc' = "loop"
                 /\ term'.out = IF term.col >= 1 /\ term.col - 1 >= max_left
                                THEN term.out \o EraseOps ELSE term.out
        /\ (Consumed /\ LastEv.code = "Char" /\ LastEv.mods # {})
              => pw' = pw
      ]_vars

C19_Witness ==
    /\ result.kind = "Ok"
    /\ Len(evs) = 3
    /\ Dispatch(evs[1]) = "char"
    /\ evs[2] = KeyEv("Backspace", "", {SHIFT})
    /\ evs[3] = KeyEv("Enter", "", {CONTROL})
    /\ result.val = <<>>
    /\ Len(KeyOut) = 6

====
